---- MODULE Spec2Model ----
(***************************************************************************)
(* Model of two handlers of io-functions-services:                         *)
(*                                                                         *)
(*  - GetSubscriptionsFeedHandler (src/GetSubscriptionsFeed/handler.ts):   *)
(*    the availability gate, the three paged partition scans and the       *)
(*    reconciliation of the three user sets into the feed;                 *)
(*  - getNotificationStatusUpdaterActivityHandler                          *)
(*    (src/NotificationStatusUpdaterActivity/handler.ts).                  *)
(*                                                                         *)
(* Instants are JavaScript time values (milliseconds since the epoch),     *)
(* written in mixed radix as [day, ms] with 0 <= ms < MsPerDay, because a  *)
(* time value of this century does not fit the model checker's integers.   *)
(* A JavaScript Set is a sequence without repetitions, in insertion order  *)
(* (the order forEach visits).                                             *)
(***************************************************************************)
EXTENDS Integers, Sequences, FiniteSets, TLC

\* ------------------------------------------------------------------ bounds

\* most pages the table service serves for one partition scan
MaxPages == 2

\* most records on one page
MaxPageLen == 1

\* fiscal code hashes (RowKey of the records)
Ids == {"a", "b", "c"}

\* serviceId of the authenticated caller
Services == {"s1"}

\* requested dates (already validated as ShortDateString)
Dates ==
  { [y |-> 2021, m |-> 5,  d |-> 1],
    [y |-> 2020, m |-> 2,  d |-> 28],
    [y |-> 2021, m |-> 2,  d |-> 28],
    [y |-> 2021, m |-> 12, d |-> 31] }

\* ------------------------------------------------------------------ dates

MsPerDay == 24 * 60 * 60 * 1000

\* new Date(`${date}T00:00:00Z`): the day number of a civil date
\* (ECMAScript MakeDay), days since 1970-01-01
EpochDay(date) ==
  LET yy  == IF date.m <= 2 THEN date.y - 1 ELSE date.y
      era == yy \div 400
      yoe == yy - era * 400
      mp  == IF date.m > 2 THEN date.m - 3 ELSE date.m + 9
      doy == (153 * mp + 2) \div 5 + date.d - 1
      doe == yoe * 365 + yoe \div 4 - yoe \div 100 + doy
  IN  era * 146097 + doe - 719468

\* new Date(`${date}T00:00:00Z`).getTime()
DateGetTime(date) == [day |-> EpochDay(date), ms |-> 0]

\* t + n for a time value t and a number of milliseconds n >= 0
PlusMs(t, n) ==
  [day |-> t.day + (t.ms + n) \div MsPerDay, ms |-> (t.ms + n) % MsPerDay]

\* t1 < t2 on time values
Before(t1, t2) == t1.day < t2.day \/ (t1.day = t2.day /\ t1.ms < t2.ms)

\* availableSince without the 24 hours
availableSince_NoDayAdded(date) == DateGetTime(date)

\* const availableSince = new Date(...).getTime() + 24 * 60 * 60 * 1000
availableSince(date) == PlusMs(DateGetTime(date), 24 * 60 * 60 * 1000)

\* new Date(t).toUTCString(): weekday, civil date and time of day of t
\* (milliseconds are not printed)
toUTCString(t) ==
  LET z   == t.day + 719468
      era == z \div 146097
      doe == z - era * 146097
      yoe == (doe - doe \div 1460 + doe \div 36524 - doe \div 146096) \div 365
      doy == doe - (365 * yoe + yoe \div 4 - yoe \div 100)
      mp  == (5 * doy + 2) \div 153
      dd  == doy - (153 * mp + 2) \div 5 + 1
      mm  == IF mp < 10 THEN mp + 3 ELSE mp - 9
      yy  == yoe + era * 400 + (IF mm <= 2 THEN 1 ELSE 0)
      sec == t.ms \div 1000
  IN  [ wd |-> (t.day + 4) % 7,
        y |-> yy, m |-> mm, d |-> dd,
        hh |-> sec \div 3600, mi |-> (sec \div 60) % 60, ss |-> sec % 60 ]

\* ------------------------------------------------------------------ sets

Range(s) == {s[i] : i \in 1..Len(s)}

\* Set.prototype.has
Has(s, e) == e \in Range(s)

\* Set.prototype.add
SetAdd(s, e) == IF Has(s, e) THEN s ELSE Append(s, e)

RECURSIVE AddAll(_, _)
\* page.forEach(e => entries.add(e.RowKey._))
AddAll(s, page) ==
  IF page = <<>> THEN s ELSE AddAll(SetAdd(s, Head(page)), Tail(page))

RECURSIVE PushUnlessIn(_, _, _)
\* from.forEach(x => { if (!other.has(x)) { out.push(x); } })
PushUnlessIn(out, from, other) ==
  IF from = <<>> THEN out
  ELSE PushUnlessIn(IF Has(other, Head(from)) THEN out ELSE Append(out, Head(from)),
                    Tail(from), other)

\* ------------------------------------------------------------------ state

VARIABLES
  pc,                         \* position of the feed handler
  subscriptionsDateUTC,       \* the date parameter of the request
  serviceId,                  \* userAttributes.service.serviceId
  now,                        \* the value Date.now() returns to the handler
  token,                      \* continuation token of the running scan
  entries,                    \* the Set the running queryUsers accumulates
  profileSubscriptionsSet,
  serviceSubscriptionsSet,
  serviceUnsubscriptionsSet,
  response,                   \* how the handler's promise settled
  detail,                     \* detail of the not-found response
  feedJson,                   \* body of the success response
  log,                        \* page requests sent to the table service
  table,                      \* records the table service has served
  apc,                        \* position of the status updater activity
  input,                      \* input of the activity
  updaterCalls,               \* calls of the notification status updater
  errorOrUpdatedNotificationStatus,  \* what the updater answered
  result                      \* how the activity's promise settled

feedVars ==
  << pc, subscriptionsDateUTC, serviceId, now, token, entries,
     profileSubscriptionsSet, serviceSubscriptionsSet,
     serviceUnsubscriptionsSet, response, detail, feedJson, log, table >>

activityVars == << apc, input, updaterCalls, errorOrUpdatedNotificationStatus, result >>

vars == << feedVars, activityVars >>

\* ------------------------------------------------------------------ feed

Scans == {"profile", "subs", "unsubs"}

\* queryFilterForKey(`P-${subscriptionsDateUTC}-S`)
profileSubscriptionsQuery(date, service) == << "P", date, "S" >>

serviceSubscriptionsQuery_WrongSuffix(date, service) == << "S", date, service, "U" >>

\* queryFilterForKey(`S-${subscriptionsDateUTC}-${serviceId}-S`)
serviceSubscriptionsQuery(date, service) == << "S", date, service, "S" >>

\* queryFilterForKey(`S-${subscriptionsDateUTC}-${serviceId}-U`)
serviceUnsubscriptionsQuery(date, service) == << "S", date, service, "U" >>

\* the query the handler passes to queryUsers at each await
QueryOf(scan) ==
  CASE scan = "profile" -> profileSubscriptionsQuery(subscriptionsDateUTC, serviceId)
    [] scan = "subs"    -> serviceSubscriptionsQuery(subscriptionsDateUTC, serviceId)
    [] scan = "unsubs"  -> serviceUnsubscriptionsQuery(subscriptionsDateUTC, serviceId)

AfterScan_UnsubsFirst(scan) ==
  CASE scan = "profile" -> "unsubs"
    [] scan = "unsubs"  -> "subs"
    [] scan = "subs"    -> "reconcile"

\* the statement that follows each await of queryUsers
AfterScan(scan) ==
  CASE scan = "profile" -> "subs"
    [] scan = "subs"    -> "unsubs"
    [] scan = "unsubs"  -> "reconcile"

\* the contents a page can have
PageContents ==
  UNION { [1..n -> Ids] : n \in 0..MaxPageLen }

\* what the table service can answer to a page request carrying tok:
\* an error, or a page with the token of the next page (<<>>: none)
PagedQueryResults(tok) ==
  LET served == IF tok = <<>> THEN 0 ELSE tok[1]
      next   == IF served + 1 < MaxPages THEN { <<>>, << served + 1 >> }
                ELSE { <<>> }
  IN  { [ok |-> FALSE, entries |-> <<>>, continuationToken |-> <<>>] }
      \cup { [ok |-> TRUE, entries |-> p, continuationToken |-> c] :
               p \in PageContents, c \in next }

Subscriptions_NoUnsubCheck(ps, ss, us) ==
  PushUnlessIn(ps, ss, ps)

Subscriptions_NoProfileCheck(ps, ss, us) ==
  PushUnlessIn(<<>>, ps, us) \o ss

\* the two forEach loops that fill `subscriptions`
Subscriptions(ps, ss, us) ==
  PushUnlessIn(PushUnlessIn(<<>>, ps, us), ss, ps)

Unsubscriptions_NoProfileCheck(ps, us) == us

Unsubscriptions_Inverted(ps, us) == SelectSeq(us, LAMBDA x : Has(ps, x))

\* the forEach loop that fills `unsubscriptions`
Unsubscriptions(ps, us) == PushUnlessIn(<<>>, us, ps)

\* instants around the end of the requested day: its first millisecond,
\* its 23:00, its last millisecond and the first millisecond after it
NowsAround(date) ==
  { [day |-> EpochDay(date), ms |-> t] :
      t \in {0, 23 * 60 * 60 * 1000, MsPerDay - 1} }
  \cup { [day |-> EpochDay(date) + 1, ms |-> 0] }

Init ==
  /\ pc = "called"
  /\ subscriptionsDateUTC \in Dates
  /\ serviceId \in Services
  /\ now \in NowsAround(subscriptionsDateUTC)
  /\ token = <<>>
  /\ entries = <<>>
  /\ profileSubscriptionsSet = <<>>
  /\ serviceSubscriptionsSet = <<>>
  /\ serviceUnsubscriptionsSet = <<>>
  /\ response = "pending"
  /\ detail = <<>>
  /\ feedJson = <<>>
  /\ log = <<>>
  /\ table = {}
  /\ apc = "idle"
  /\ input = [channel |-> "EMAIL", messageId |-> "m1",
              notificationId |-> "n1", status |-> "SENT"]
  /\ updaterCalls = <<>>
  /\ errorOrUpdatedNotificationStatus = "none"
  /\ result = "pending"

CheckAvailable_ScanFirst ==
  /\ pc = "called"
  /\ log' = Append(log, [pk |-> QueryOf("profile"), token |-> <<>>, ok |-> TRUE,
                         next |-> <<>>])
  /\ IF Before(now, availableSince(subscriptionsDateUTC))
     THEN /\ response' = "NotFound"
          /\ detail' = << subscriptionsDateUTC,
                          toUTCString(availableSince(subscriptionsDateUTC)) >>
          /\ pc' = "done"
     ELSE /\ pc' = "profile"
          /\ UNCHANGED << response, detail >>
  /\ UNCHANGED << subscriptionsDateUTC, serviceId, now, token, entries,
                  profileSubscriptionsSet, serviceSubscriptionsSet,
                  serviceUnsubscriptionsSet, feedJson, table, activityVars >>

\* the handler up to its first await: the availability check
CheckAvailable ==
  /\ pc = "called"
  /\ IF Before(now, availableSince(subscriptionsDateUTC))
     THEN /\ response' = "NotFound"
          /\ detail' = << subscriptionsDateUTC,
                          toUTCString(availableSince(subscriptionsDateUTC)) >>
          /\ pc' = "done"
     ELSE /\ pc' = "profile"
          /\ UNCHANGED << response, detail >>
  /\ UNCHANGED << subscriptionsDateUTC, serviceId, now, token, entries,
                  profileSubscriptionsSet, serviceSubscriptionsSet,
                  serviceUnsubscriptionsSet, feedJson, log, table,
                  activityVars >>

\* queryUsers resolves with the set acc: the handler binds it and goes on
ScanResolved(acc) ==
  /\ profileSubscriptionsSet' =
       IF pc = "profile" THEN acc ELSE profileSubscriptionsSet
  /\ serviceSubscriptionsSet' =
       IF pc = "subs" THEN acc ELSE serviceSubscriptionsSet
  /\ serviceUnsubscriptionsSet' =
       IF pc = "unsubs" THEN acc ELSE serviceUnsubscriptionsSet
  /\ pc' = AfterScan(pc)
  /\ token' = <<>>
  /\ entries' = <<>>
  /\ UNCHANGED << response >>

ScanRejected_Swallowed == ScanResolved(entries)

\* queryUsers rejects: no catch in the handler, its promise rejects
ScanRejected ==
  /\ response' = "Rejected"
  /\ pc' = "done"
  /\ UNCHANGED << token, entries, profileSubscriptionsSet,
                  serviceSubscriptionsSet, serviceUnsubscriptionsSet >>

\* one turn of the loop of queryUsers: request a page, take its records
QueryUsersPage ==
  /\ pc \in Scans
  /\ \E res \in PagedQueryResults(token) :
       /\ log' = Append(log, [pk |-> QueryOf(pc), token |-> token, ok |-> res.ok,
                              next |-> res.continuationToken])
       /\ IF ~res.ok
          THEN /\ ScanRejected
               /\ UNCHANGED table
          ELSE /\ table' = table \cup { << QueryOf(pc), id >> : id \in Range(res.entries) }
               /\ IF res.continuationToken = <<>>
                  THEN ScanResolved(AddAll(entries, res.entries))
                  ELSE /\ entries' = AddAll(entries, res.entries)
                       /\ token' = res.continuationToken
                       /\ UNCHANGED << pc, response, profileSubscriptionsSet,
                                       serviceSubscriptionsSet,
                                       serviceUnsubscriptionsSet >>
  /\ UNCHANGED << subscriptionsDateUTC, serviceId, now, detail, feedJson,
                  activityVars >>

\* the handler after the third await: build the feed and respond
Reconcile ==
  /\ pc = "reconcile"
  /\ feedJson' =
       << [ dateUTC         |-> subscriptionsDateUTC,
            subscriptions   |-> Subscriptions(profileSubscriptionsSet,
                                              serviceSubscriptionsSet,
                                              serviceUnsubscriptionsSet),
            unsubscriptions |-> Unsubscriptions(profileSubscriptionsSet,
                                                serviceUnsubscriptionsSet) ] >>
  /\ response' = "SuccessJson"
  /\ pc' = "done"
  /\ UNCHANGED << subscriptionsDateUTC, serviceId, now, token, entries,
                  profileSubscriptionsSet, serviceSubscriptionsSet,
                  serviceUnsubscriptionsSet, detail, log, table, activityVars >>

Next == CheckAvailable \/ QueryUsersPage \/ Reconcile

Spec == Init /\ [][Next]_vars

\* ------------------------------------------------------------------ activity

\* the values of NotificationChannel
NotificationChannel == {"EMAIL", "WEBHOOK"}

\* the values of NotificationChannelStatusValue
NotificationChannelStatusValue == {"SENT", "THROTTLED", "EXPIRED", "FAILED"}

\* a field the input lacks
Undefined == "undefined"

\* the inputs the activity is called with, well formed or not
ActivityInputs ==
  [ channel        : NotificationChannel \cup {"SMS", Undefined},
    messageId      : {"m1", "", Undefined},
    notificationId : {"n1", "", Undefined},
    status         : NotificationChannelStatusValue \cup {"QUEUED", Undefined} ]

\* NonEmptyString.is
NonEmptyString(v) == v # Undefined /\ v # ""

\* NotificationStatusUpdaterActivityInput.decode(input).isRight()
DecodesInput(i) ==
  /\ i.channel \in NotificationChannel
  /\ NonEmptyString(i.messageId)
  /\ NonEmptyString(i.notificationId)
  /\ i.status \in NotificationChannelStatusValue

ActivityInit ==
  /\ pc = "called"
  /\ subscriptionsDateUTC = [y |-> 2021, m |-> 5, d |-> 1]
  /\ serviceId = "s1"
  /\ now = [day |-> EpochDay(subscriptionsDateUTC), ms |-> 0]
  /\ token = <<>>
  /\ entries = <<>>
  /\ profileSubscriptionsSet = <<>>
  /\ serviceSubscriptionsSet = <<>>
  /\ serviceUnsubscriptionsSet = <<>>
  /\ response = "pending"
  /\ detail = <<>>
  /\ feedJson = <<>>
  /\ log = <<>>
  /\ table = {}
  /\ apc = "called"
  /\ input \in ActivityInputs
  /\ updaterCalls = <<>>
  /\ errorOrUpdatedNotificationStatus = "none"
  /\ result = "pending"

\* the activity up to its await: decode the input, call the updater
ActivityDecode ==
  /\ apc = "called"
  /\ IF ~DecodesInput(input)
     THEN /\ result' = "FAILURE"
          /\ apc' = "done"
          /\ UNCHANGED updaterCalls
     ELSE /\ updaterCalls' = Append(updaterCalls, input)
          /\ apc' = "updating"
          /\ UNCHANGED result
  /\ UNCHANGED << input, errorOrUpdatedNotificationStatus, feedVars >>

UpdaterLeft_ReturnsFailure == "FAILURE"

\* throw new Error(errorOrUpdatedNotificationStatus.value.message)
UpdaterLeft == "thrown"

\* the activity after its await: the updater answered left or right
ActivityUpdated ==
  /\ apc = "updating"
  /\ \E isLeft \in BOOLEAN :
       /\ errorOrUpdatedNotificationStatus' = IF isLeft THEN "left" ELSE "right"
       /\ result' = IF isLeft THEN UpdaterLeft ELSE "SUCCESS"
  /\ apc' = "done"
  /\ UNCHANGED << input, updaterCalls, feedVars >>

ActivityNext == ActivityDecode \/ ActivityUpdated

ActivitySpec == ActivityInit /\ [][ActivityNext]_vars

\* ------------------------------------------------------------------ claims

\* the three fetched sets, as sets of identifiers
ProfileSet == Range(profileSubscriptionsSet)
SubSet     == Range(serviceSubscriptionsSet)
UnsubSet   == Range(serviceUnsubscriptionsSet)

\* the handler returned the feed
Succeeded == response = "SuccessJson" /\ Len(feedJson) = 1

FeedSubscriptions   == feedJson[1].subscriptions
FeedUnsubscriptions == feedJson[1].unsubscriptions

\* no element occurs twice in the sequence
NoRepetition(q) == \A i, j \in 1..Len(q) : q[i] = q[j] => i = j

\* C1 as stated: the two outputs of a successful call never share an
\* identifier, whatever the store holds.
C1_AlwaysDisjoint ==
  Succeeded => Range(FeedSubscriptions) \cap Range(FeedUnsubscriptions) = {}

\* C1 as amended: the identifiers in both outputs of a successful call are
\* exactly those in SubSet and UnsubSet but not in ProfileSet, so the outputs
\* are disjoint exactly when no identifier outside ProfileSet is in both
\* SubSet and UnsubSet.
C1_OverlapIsSubAndUnsubOutsideProfile ==
  Succeeded =>
    Range(FeedSubscriptions) \cap Range(FeedUnsubscriptions)
      = (SubSet \cap UnsubSet) \ ProfileSet

\* a successful call where one explicit subscriber also unsubscribed, next to
\* a new profile that unsubscribed
C1_Witness ==
  /\ Succeeded
  /\ ProfileSet = {"a"}
  /\ SubSet = {"b"}
  /\ UnsubSet = {"a", "b"}
  /\ Range(FeedUnsubscriptions) = {"b"}

\* C2: the members of `subscriptions` are (ProfileSet minus UnsubSet) union
\* (SubSet minus ProfileSet); three empty sets give the empty sequence in a
\* success response.
C2_SubscriptionsMembers ==
  /\ Succeeded =>
       Range(FeedSubscriptions)
         = (ProfileSet \ UnsubSet) \cup (SubSet \ ProfileSet)
  /\ (pc = "done" /\ response # "Rejected" /\ response # "NotFound"
        /\ ProfileSet = {} /\ SubSet = {} /\ UnsubSet = {}) =>
       (Succeeded /\ FeedSubscriptions = <<>> /\ FeedUnsubscriptions = <<>>)

\* the example of the specification: {a,b}, {b,c}, {b} give {a,c}
C2_Witness ==
  /\ Succeeded
  /\ ProfileSet = {"a", "b"}
  /\ SubSet = {"b", "c"}
  /\ UnsubSet = {"b"}
  /\ Range(FeedSubscriptions) = {"a", "c"}

\* C3: the members of `unsubscriptions` are UnsubSet minus ProfileSet, so an
\* identifier that is in ProfileSet and in UnsubSet is not reported.
C3_UnsubscriptionsMembers ==
  Succeeded =>
    /\ Range(FeedUnsubscriptions) = UnsubSet \ ProfileSet
    /\ \A id \in ProfileSet \cap UnsubSet : id \notin Range(FeedUnsubscriptions)

\* a profile created and unsubscribed on the same day, next to an
\* unsubscription that is reported
C3_Witness ==
  /\ Succeeded
  /\ "a" \in ProfileSet \cap UnsubSet
  /\ "b" \in UnsubSet \ ProfileSet
  /\ FeedUnsubscriptions = << "b" >>

\* days of a month of the civil calendar
DaysInMonth(y, m) ==
  IF m = 2
  THEN IF (y % 4 = 0 /\ y % 100 # 0) \/ y % 400 = 0 THEN 29 ELSE 28
  ELSE IF m \in {4, 6, 9, 11} THEN 30 ELSE 31

\* the civil date of the day after date
DayAfter(date) ==
  IF date.d < DaysInMonth(date.y, date.m)
  THEN [date EXCEPT !.d = date.d + 1]
  ELSE IF date.m < 12
       THEN [date EXCEPT !.m = date.m + 1, !.d = 1]
       ELSE [y |-> date.y + 1, m |-> 1, d |-> 1]

\* midnight UTC at the start of a civil date
MidnightUTC(date) == [day |-> EpochDay(date), ms |-> 0]

\* C4: the request is answered not-found, naming the available-since instant,
\* if and only if now is strictly before midnight UTC of the day after the
\* date; otherwise it goes on to the scans.
C4_RejectedIffBeforeNextMidnight ==
  pc # "called" =>
    /\ response = "NotFound"
         <=> Before(now, MidnightUTC(DayAfter(subscriptionsDateUTC)))
    /\ response = "NotFound" =>
         /\ pc = "done"
         /\ detail[1] = subscriptionsDateUTC
         /\ LET at == detail[2]
                nd == DayAfter(subscriptionsDateUTC)
            IN  /\ << at.y, at.m, at.d >> = << nd.y, nd.m, nd.d >>
                /\ << at.hh, at.mi, at.ss >> = << 0, 0, 0 >>
    /\ ~Before(now, MidnightUTC(DayAfter(subscriptionsDateUTC))) =>
         (pc \in Scans \cup {"reconcile"}
            \/ response \in {"SuccessJson", "Rejected"})

\* the example of the specification: 2021-05-01 asked at 23:00 of that day
\* (day 18748 of the epoch) is refused until 2021-05-02T00:00:00Z
C4_Witness ==
  /\ subscriptionsDateUTC = [y |-> 2021, m |-> 5, d |-> 1]
  /\ now = [day |-> 18748, ms |-> 23 * 60 * 60 * 1000]
  /\ response = "NotFound"
  /\ detail[2] = [wd |-> 0, y |-> 2021, m |-> 5, d |-> 2,
                  hh |-> 0, mi |-> 0, ss |-> 0]

\* C5: no page is requested before the availability check has passed, and a
\* request refused as not yet available has requested no page.
C5_CheckBeforeAnyScan ==
  /\ log # <<>> =>
       (pc # "called" /\ ~Before(now, availableSince(subscriptionsDateUTC)))
  /\ pc = "called" => log = <<>>
  /\ response = "NotFound" => (log = <<>> /\ table = {})

\* the first page is requested for a request made at the very instant the
\* data becomes available
C5_Witness ==
  /\ now = availableSince(subscriptionsDateUTC)
  /\ Len(log) = 1
  /\ pc = "profile"

\* C6: once a page fetch has failed the call is settled with the store
\* error; it never returns a success response and never a feed.
C6_FailureAbortsCall ==
  (\E i \in 1..Len(log) : ~log[i].ok) =>
    /\ pc = "done"
    /\ response = "Rejected"
    /\ feedJson = <<>>

\* the second page of the service-subscriptions scan fails after the
\* profile scan has completed
C6_Witness ==
  /\ Len(log) >= 3
  /\ log[Len(log)].pk = << "S", subscriptionsDateUTC, serviceId, "S" >>
  /\ log[Len(log)].token = << 1 >>
  /\ ~log[Len(log)].ok
  /\ profileSubscriptionsSet # <<>>
  /\ response = "Rejected"

\* the partition keys of the three event streams of the request
KProfile == << "P", subscriptionsDateUTC, "S" >>
KSub     == << "S", subscriptionsDateUTC, serviceId, "S" >>
KUnsub   == << "S", subscriptionsDateUTC, serviceId, "U" >>

\* the identifiers of the records served for a partition
RecordsOf(pk) == { r[2] : r \in { x \in table : x[1] = pk } }

\* the page requests made for a partition, in order
RequestsFor(pk) == SelectSeq(log, LAMBDA e : e.pk = pk)

\* the scan of a partition ran to the page after which no page remains
Exhausted(pk) ==
  LET reqs == RequestsFor(pk)
  IN  /\ reqs # <<>>
      /\ reqs[1].token = <<>>
      /\ \A i \in 1..Len(reqs) : reqs[i].ok
      /\ \A i \in 1..(Len(reqs) - 1) :
           reqs[i].next # <<>> /\ reqs[i + 1].token = reqs[i].next
      /\ reqs[Len(reqs)].next = <<>>

\* the handler holds the result of the scan
HandedOver(scan) ==
  \/ response = "SuccessJson"
  \/ pc = "reconcile"
  \/ (scan = "profile" /\ pc \in {"subs", "unsubs"})
  \/ (scan = "subs" /\ pc = "unsubs")

\* C7: a scan follows the continuation tokens until none is returned, and
\* the set the handler receives, received only then, holds the identifiers
\* of all records of all pages of the partition.
C7_ScanToExhaustion ==
  /\ HandedOver("profile") =>
       (Exhausted(KProfile) /\ ProfileSet = RecordsOf(KProfile))
  /\ HandedOver("subs") =>
       (Exhausted(KSub) /\ SubSet = RecordsOf(KSub))
  /\ HandedOver("unsubs") =>
       (Exhausted(KUnsub) /\ UnsubSet = RecordsOf(KUnsub))
  /\ \A i \in 1..(Len(log) - 1) :
       (log[i].ok /\ log[i].next # <<>>) =>
         (log[i + 1].pk = log[i].pk /\ log[i + 1].token = log[i].next)

\* a two-page scan whose second page brings an identifier the first lacks,
\* a scan of one page without records, and a two-page scan whose pages
\* repeat one identifier
C7_Witness ==
  /\ pc = "reconcile"
  /\ Len(RequestsFor(KSub)) = 2
  /\ serviceSubscriptionsSet = << "a", "b" >>
  /\ Len(RequestsFor(KUnsub)) = 1
  /\ serviceUnsubscriptionsSet = <<>>
  /\ Len(RequestsFor(KProfile)) = 2
  /\ Len(profileSubscriptionsSet) = 1

\* C8: no identifier occurs twice in `subscriptions` or in `unsubscriptions`.
C8_NoDuplicates ==
  Succeeded =>
    (NoRepetition(FeedSubscriptions) /\ NoRepetition(FeedUnsubscriptions))

\* an identifier that is both a new profile and an explicit subscriber, seen
\* on two pages of the profile partition
C8_Witness ==
  /\ Succeeded
  /\ "a" \in ProfileSet \cap SubSet
  /\ "a" \notin UnsubSet
  /\ Len(RequestsFor(KProfile)) = 2
  /\ Len(FeedSubscriptions) = 2
  /\ Len(FeedUnsubscriptions) = 2

\* position of a partition in the order profile, subscriptions,
\* unsubscriptions
Rank(pk) == IF pk = KProfile THEN 1 ELSE IF pk = KSub THEN 2 ELSE 3

\* C9: the scans run one after another in the order profile-creation,
\* service-subscriptions, service-unsubscriptions; a scan starts only when
\* the one before is exhausted, and no page is requested after a failed one.
C9_ScansInSequence ==
  /\ log # <<>> => log[1].pk = KProfile
  /\ \A i \in 1..(Len(log) - 1) :
       /\ log[i].ok
       /\ IF log[i].next = <<>>
          THEN Rank(log[i + 1].pk) = Rank(log[i].pk) + 1
          ELSE log[i + 1].pk = log[i].pk
  /\ \A i \in 1..Len(log) : log[i].pk \in {KProfile, KSub, KUnsub}

\* the third scan fails on its second page after two scans of two pages
C9_Witness ==
  /\ Len(log) = 6
  /\ log[4].pk = KSub
  /\ log[6].pk = KUnsub
  /\ ~log[6].ok
  /\ response = "Rejected"

\* C10: an input that fails decoding returns FAILURE without a call of the
\* updater; an input that decodes calls the updater once, returns SUCCESS
\* when it succeeds and throws when it fails.
C10_ActivityOutcome ==
  /\ ~DecodesInput(input) =>
       /\ updaterCalls = <<>>
       /\ apc = "done" => result = "FAILURE"
  /\ (DecodesInput(input) /\ apc # "called") =>
       /\ updaterCalls = << input >>
       /\ apc = "updating" => result = "pending"
       /\ (apc = "done" /\ errorOrUpdatedNotificationStatus = "right") =>
            result = "SUCCESS"
       /\ (apc = "done" /\ errorOrUpdatedNotificationStatus = "left") =>
            result = "thrown"
       /\ apc = "done" => errorOrUpdatedNotificationStatus \in {"left", "right"}

\* the updater, called once for a valid input, answers with an error
C10_Witness ==
  /\ apc = "done"
  /\ DecodesInput(input)
  /\ Len(updaterCalls) = 1
  /\ errorOrUpdatedNotificationStatus = "left"
  /\ result = "thrown"

====
